---------------------------- MODULE Spec2Model ----------------------------
(***************************************************************************)
(* Model of the Feishu AI chat bot (src/app.py): the access-token cache    *)
(* (get_feishu_access_token), the message sender (send_feishu_message),    *)
(* the completion client (call_ai_api / call_deepseek_api) and the webhook *)
(* event router (webhook), run by the threads of the Flask server.         *)
(*                                                                         *)
(* Python strings are sequences of one-character strings, so that strip(), *)
(* lower(), startswith() and json.loads() are computed character by        *)
(* character.  Values that are not Python strings (None, a number) are the *)
(* one-element sequences NoneVal and NumVal, whose element is no           *)
(* character.  The characters of "帮助", "测试" and "关于" are written        *)
(* "bang","zhu", "ce","shi" and "guan","yu".                               *)
(***************************************************************************)
EXTENDS Integers, Sequences, FiniteSets, TLC

\* ------------------------------------------------------------------ bounds
\* The clock stops at MaxTime seconds; the auth endpoint issues MaxAuth tokens.
MaxTime == 12000
MaxAuth == 3

\* The clock advances by one of these steps (seconds): an instant just inside
\* a token's window (6000 s after the fetch) and the expiry instant itself.
TickSteps == {6000, 6600}

\* ------------------------------------------------------- program constants
\* expire_time = current_time + 6600 (app.py line 61)
TokenTTL == 6600
\* "2小时有效期": the platform keeps a token valid for two hours (line 36)
PlatformValidity == 7200
\* what the cache gives up of the platform's validity
SafetyMargin == PlatformValidity - TokenTTL

\* ------------------------------------------------------------ Python values
NoneVal == <<"None">>
NumVal == <<"Number">>
NonStrings == {NoneVal, NumVal}
\* a key that the JSON object does not carry
Absent == <<"Absent">>
EmptyStr == <<>>

IsStr(v) == v \notin NonStrings /\ v # Absent

\* dict.get(key, default)
Get(v, default) == IF v = Absent THEN default ELSE v

\* Python truthiness of a string or None
Truthy(v) == v # EmptyStr /\ v # NoneVal

Whitespace == {" ", "\t", "\n"}

RECURSIVE LStrip(_)
LStrip(s) == IF s # <<>> /\ Head(s) \in Whitespace THEN LStrip(Tail(s)) ELSE s

RECURSIVE RStrip(_)
RStrip(s) ==
    IF s # <<>> /\ s[Len(s)] \in Whitespace
    THEN RStrip(SubSeq(s, 1, Len(s) - 1))
    ELSE s

\* str.strip()
Strip(s) == RStrip(LStrip(s))

LowerMap ==
    [A |-> "a", B |-> "b", E |-> "e", F |-> "f", G |-> "g", H |-> "h",
     I |-> "i", L |-> "l", N |-> "n", O |-> "o", P |-> "p", S |-> "s",
     T |-> "t", U |-> "u"]

LowerChar(c) == IF c \in DOMAIN LowerMap THEN LowerMap[c] ELSE c

\* str.lower()
Lower(s) == [i \in DOMAIN s |-> LowerChar(s[i])]

\* str.startswith(prefix)
StartsWith(s, prefix) ==
    Len(s) >= Len(prefix) /\ SubSeq(s, 1, Len(prefix)) = prefix

EndsWith(s, suffix) ==
    Len(s) >= Len(suffix)
    /\ SubSeq(s, Len(s) - Len(suffix) + 1, Len(s)) = suffix


\* ------------------------------------------------------------- json.loads
\* The documents json.loads is given here: {} , {"text":<value>} with a
\* string or a number as the value, a bare string, a bare number; white
\* space around the document and around the value is skipped, as JSON does.
\* Everything else is a parse failure (JSONDecodeError).
Quote == "\""
Digits == {"0", "5"}
TextKey == <<"{", Quote, "t", "e", "x", "t", Quote, ":">>

IsJsonString(s) ==
    /\ Len(s) >= 2
    /\ s[1] = Quote
    /\ s[Len(s)] = Quote
    /\ \A i \in 2..(Len(s) - 1) : s[i] \notin {Quote, "\\", "\n", "\t"}

IsJsonNumber(s) == Len(s) = 1 /\ s[1] \in Digits

Unquote(s) == SubSeq(s, 2, Len(s) - 1)

JsonFail == [ok |-> FALSE, isObject |-> FALSE, text |-> Absent]

JsonLoads(raw) ==
    LET s == Strip(raw)
        v == Strip(SubSeq(s, Len(TextKey) + 1, Len(s) - 1))
    IN  IF s = <<"{", "}">>
        THEN [ok |-> TRUE, isObject |-> TRUE, text |-> Absent]
        ELSE IF StartsWith(s, TextKey) /\ EndsWith(s, <<"}">>)
        THEN IF IsJsonString(v)
             THEN [ok |-> TRUE, isObject |-> TRUE, text |-> Unquote(v)]
             ELSE IF IsJsonNumber(v)
             THEN [ok |-> TRUE, isObject |-> TRUE, text |-> NumVal]
             ELSE JsonFail
        ELSE IF IsJsonString(s) \/ IsJsonNumber(s)
        THEN [ok |-> TRUE, isObject |-> FALSE, text |-> Absent]
        ELSE JsonFail

\* ------------------------------------------------------- webhook, lines 211-229
\* user_text of lines 212-217.  content is message.get("content", "{}").
\* json.loads raises on a parse failure and on a content that is no string;
\* content_dict.get raises when the document is no object; .strip() raises
\* when the text is no string.  The bare except turns each into the raw content.
UserText(content) ==
    LET raw == Get(content, <<"{", "}">>)
        j == JsonLoads(raw)
    IN  IF ~IsStr(raw) THEN raw
        ELSE IF ~j.ok \/ ~j.isObject THEN raw
        ELSE IF ~IsStr(Get(j.text, EmptyStr)) THEN raw
        ELSE Strip(Get(j.text, EmptyStr))

\* line 229 with the chat_id used for group chats only
ReceiveIdGroupOnly(chat_type, user_id, chat_id) ==
    IF chat_type = "group" THEN Get(chat_id, EmptyStr) ELSE Get(user_id, EmptyStr)

\* receive_id of lines 220-229
ReceiveId(chat_type, user_id, chat_id) ==
    IF chat_type = "p2p" THEN Get(user_id, EmptyStr) ELSE Get(chat_id, EmptyStr)

\* the command lists of lines 232, 251, 256
HelpKeywords ==
    {<<"/", "h", "e", "l", "p">>, <<"bang", "zhu">>, <<"h", "e", "l", "p">>}
TestKeywords ==
    {<<"/", "t", "e", "s", "t">>, <<"ce", "shi">>, <<"p", "i", "n", "g">>}
AboutKeywords ==
    {<<"/", "a", "b", "o", "u", "t">>, <<"guan", "yu">>, <<"i", "n", "f", "o">>}

\* the fixed replies of lines 233-246, 252 and 257-261
HelpText == <<"#", "u", "s", "a", "g", "e">>
TestText == <<"#", "o", "n", "l", "i", "n", "e">>
AboutText == <<"#", "a", "b", "o", "u", "t">>

\* the branch of the if/elif chain of lines 232-266 that a user_text takes
CommandOfExact(user_text) ==
    IF user_text \in HelpKeywords THEN "help"
    ELSE IF user_text \in TestKeywords THEN "test"
    ELSE IF user_text \in AboutKeywords THEN "about"
    ELSE IF Truthy(user_text) THEN "chat"
    ELSE "none"

\* line 266 as a plain else
CommandOfNoEmptyTest(user_text) ==
    IF Lower(user_text) \in HelpKeywords THEN "help"
    ELSE IF Lower(user_text) \in TestKeywords THEN "test"
    ELSE IF Lower(user_text) \in AboutKeywords THEN "about"
    ELSE "chat"

CommandOf(user_text) ==
    IF Lower(user_text) \in HelpKeywords THEN "help"
    ELSE IF Lower(user_text) \in TestKeywords THEN "test"
    ELSE IF Lower(user_text) \in AboutKeywords THEN "about"
    ELSE IF Truthy(user_text) THEN "chat"
    ELSE "none"

CommandText(cmd) ==
    CASE cmd = "help" -> HelpText
      [] cmd = "test" -> TestText
      [] OTHER -> AboutText

\* the msg of the acknowledgment, lines 248, 253, 263, 276
CommandMsg(cmd) ==
    CASE cmd = "help" -> "help command"
      [] cmd = "test" -> "test command"
      [] cmd = "about" -> "about command"
      [] OTHER -> "message processed"

\* --------------------------------------------- send_feishu_message, lines 83-91
ReceiveIdTypeNoChat(receive_id) ==
    IF StartsWith(receive_id, <<"o", "u", "_">>) THEN "open_id"
    ELSE IF StartsWith(receive_id, <<"o", "n", "_">>) THEN "union_id"
    ELSE "user_id"

ReceiveIdType(receive_id) ==
    IF StartsWith(receive_id, <<"o", "u", "_">>) THEN "open_id"
    ELSE IF StartsWith(receive_id, <<"o", "n", "_">>) THEN "union_id"
    ELSE IF StartsWith(receive_id, <<"o", "c", "_">>) THEN "chat_id"
    ELSE "user_id"


\* ----------------------------------------- call_deepseek_api, lines 144-165
\* The strings of lines 120, 152, 154-160, 163 and 165.
PlaceholderText == <<"#", "s", "a", "m", "p", "l", "e">>
FormatErrorText == <<"#", "f", "o", "r", "m", "a", "t">>
ApiErrorText == <<"#", "a", "p", "i">>
TimeoutText == <<"#", "t", "i", "m", "e", "o", "u", "t">>
ExceptionText == <<"#", "e", "x", "c">>

HiText == <<"H", "i", "!">>

\* What requests.post to the completion endpoint does: it raises Timeout,
\* raises another exception, or returns a response with a status code and a
\* body.  Bodies: choices[0].message.content present (a string or null),
\* choices empty, choices missing, choices[0] without message.content, or
\* a body that is no JSON.
ResponseShapes ==
    [kind : {"timeout", "exception"}, status : {0}, body : {"none"},
     content : {EmptyStr}]
    \cup [kind : {"http"}, status : {200}, body : {"content"},
          content : {HiText, NoneVal}]
    \cup [kind : {"http"}, status : {200, 500},
          body : {"choices_empty", "choices_missing", "no_message", "not_json"},
          content : {EmptyStr}]

CompletionResponses ==
    { r \in ResponseShapes : r.kind \in {"timeout", "exception", "http"} }

DeepseekReply(r) ==
    IF r.kind = "timeout" THEN TimeoutText
    ELSE IF r.kind = "exception" THEN ExceptionText
    ELSE IF r.status # 200 THEN ApiErrorText
    ELSE IF r.body = "not_json" THEN ExceptionText
    ELSE IF r.body \in {"choices_empty", "choices_missing"} THEN FormatErrorText
    ELSE IF r.body = "no_message" THEN ExceptionText
    ELSE r.content

\* --------------------------------------- get_feishu_access_token, lines 40-61
\* Tokens are 1, 2, ... in the order the auth endpoint issues them; 0 is None.
NoToken == 0

\* line 41-42, second conjunct
StillValidInclusive(current_time, expire_time) == current_time <= expire_time

StillValid(current_time, expire_time) == current_time < expire_time

\* line 61
NewExpireFromPlatform(current_time) == current_time + PlatformValidity

NewExpire(current_time) == current_time + TokenTTL

\* What the auth request does: code 0 with a token, a non-zero code, or an
\* exception (requests.post or response.json() raising).
AuthOutcomes == {"ok", "nonzero", "exception"}
AuthFailures == {"nonzero", "exception"}

\* What the message-send request does: a response whose JSON carries code 0,
\* one whose JSON carries the provider's error code, or an exception.
SendOutcomes == {"ok", "provider_error", "exception"}

\* the "code" of the dict send_feishu_message returns (lines 75, 108, 111)
SendResultCode(outcome) ==
    CASE outcome = "no_token" -> -1
      [] outcome = "exception" -> -1
      [] outcome = "provider_error" -> 230001
      [] OTHER -> 0


\* --------------------------------------------------------- webhook payloads
\* request.json: body is "object" for a JSON object and "other" for a body
\* that is none (data.get raises); event is "object", "absent" or "other"
\* (a value without .get); challenge, content, user_id and chat_id are
\* strings, or Absent; content may also be a value that is no string.
TextDoc(text) == TextKey \o <<Quote>> \o text \o <<Quote, "}">>

Contents ==
    { TextDoc(<<"h", "i">>),
      TextDoc(<<" ", "/", "H", "E", "L", "P", " ">>),
      TextDoc(<<"P", "i", "n", "g">>),
      TextDoc(<<"/", "a", "b", "o", "u", "t">>),
      TextDoc(<<"guan", "yu">>),
      TextDoc(<<" ">>),
      TextKey \o <<"5", "}">>,
      <<"{", "}">>,
      Absent,
      <<"h", "i">>,
      <<"H", "e", "l", "p">>,
      <<"/", "h", "e", "l", "p", " ">>,
      <<>>,
      <<" ">>,
      <<"5">>,
      <<Quote, "h", "i", Quote>>,
      NumVal,
      NoneVal }

ChatTypes == {"p2p", "group", "absent"}
UserIds ==
    {Absent, <<"o", "u", "_", "a">>, <<"u", "1">>, <<"o", "u">>,
     <<"x", "o", "c", "_">>}
ChatIds == {Absent, <<"o", "c", "_", "c">>, <<"o", "n", "_", "b">>}
Challenges == {Absent, <<"a", "b", "c", "1", "2", "3">>}

Payload(body, type, challenge, event, etype, mtype, content, chat_type, user_id, chat_id) ==
    [body |-> body, type |-> type, challenge |-> challenge, event |-> event,
     etype |-> etype, mtype |-> mtype, content |-> content,
     chat_type |-> chat_type, user_id |-> user_id, chat_id |-> chat_id]

TextEvent(content, chat_type, user_id, chat_id) ==
    Payload("object", "event_callback", Absent, "object",
            "im.message.receive_v1", "text", content, chat_type, user_id, chat_id)

DefaultUser == <<"u", "1">>
DefaultChat == <<"o", "c", "_", "c">>

BadBody ==
    Payload("other", "none", Absent, "absent", "none", "none", Absent,
            "absent", Absent, Absent)

Verifications ==
    { Payload("object", "url_verification", c, "absent", "none", "none",
              Absent, "absent", Absent, Absent) : c \in Challenges }
    \cup
    { Payload("object", "url_verification", <<"a", "b", "c", "1", "2", "3">>,
              "object", "im.message.receive_v1", "text",
              TextDoc(<<"h", "i">>), "p2p", DefaultUser, DefaultChat) }

OtherEvents ==
    { Payload("object", "other", Absent, "absent", "none", "none", Absent,
              "absent", Absent, Absent),
      Payload("object", "other", Absent, "object", "im.message.receive_v1",
              "text", TextDoc(<<"h", "i">>), "p2p", DefaultUser, DefaultChat),
      Payload("object", "event_callback", Absent, "absent", "none", "none",
              Absent, "absent", Absent, Absent),
      Payload("object", "event_callback", Absent, "other", "none", "none",
              Absent, "absent", Absent, Absent),
      Payload("object", "event_callback", Absent, "object", "other", "text",
              TextDoc(<<"h", "i">>), "p2p", DefaultUser, DefaultChat),
      Payload("object", "event_callback", Absent, "object",
              "im.message.receive_v1", "image", TextDoc(<<"h", "i">>), "p2p",
              DefaultUser, DefaultChat) }

TextEvents ==
    { TextEvent(c, "p2p", DefaultUser, DefaultChat) : c \in Contents }
    \cup
    { TextEvent(c, chat_type, u, ch) :
        c \in {TextDoc(<<"h", "i">>), TextDoc(<<"P", "i", "n", "g">>)},
        chat_type \in ChatTypes, u \in UserIds, ch \in ChatIds }

\* the requests one thread at a time is given
Payloads ==
    { p \in {BadBody} \cup Verifications \cup OtherEvents \cup TextEvents :
        p.body \in {"object", "other"} }

\* the requests two concurrent threads are given
ConcPayloads ==
    { TextEvent(TextDoc(<<"P", "i", "n", "g">>), "group", DefaultUser, DefaultChat) }

\* ------------------------------------------------- webhook, lines 190-282
\* The branch of webhook() a payload takes:
\*   "crash"     an exception reaches line 280 (HTTP 500)
\*   "challenge" lines 195-198
\*   "command"   lines 232-263
\*   "chat"      lines 266-276
\*   "ack"       line 278
IsTextEvent(p) ==
    /\ p.body = "object"
    /\ p.type = "event_callback"
    /\ p.event = "object"
    /\ p.etype = "im.message.receive_v1"
    /\ p.mtype = "text"

\* the text event handled whatever the payload's type says
RouteByEvent(p) ==
    IF p.body # "object" THEN "crash"
    ELSE IF p.event = "object" /\ p.etype = "im.message.receive_v1"
            /\ p.mtype = "text"
    THEN IF ~IsStr(UserText(p.content)) THEN "crash"
         ELSE IF CommandOf(UserText(p.content)) \in {"help", "test", "about"}
         THEN "command"
         ELSE IF CommandOf(UserText(p.content)) = "chat" THEN "chat"
         ELSE "ack"
    ELSE IF p.type = "url_verification" THEN "challenge"
    ELSE IF p.type = "event_callback" /\ p.event = "other" THEN "crash"
    ELSE "ack"

\* the test of message_type (line 210) left out
RouteAnyMessageType(p) ==
    IF p.body # "object" THEN "crash"
    ELSE IF p.type = "url_verification" THEN "challenge"
    ELSE IF p.type # "event_callback" THEN "ack"
    ELSE IF p.event = "absent" THEN "ack"
    ELSE IF p.event # "object" THEN "crash"
    ELSE IF p.etype # "im.message.receive_v1" THEN "ack"
    ELSE IF ~IsStr(UserText(p.content)) THEN "crash"
    ELSE IF CommandOf(UserText(p.content)) \in {"help", "test", "about"}
    THEN "command"
    ELSE IF CommandOf(UserText(p.content)) = "chat" THEN "chat"
    ELSE "ack"

Route(p) ==
    IF p.body # "object" THEN "crash"
    ELSE IF p.type = "url_verification" THEN "challenge"
    ELSE IF p.type # "event_callback" THEN "ack"
    ELSE IF p.event = "absent" THEN "ack"
    ELSE IF p.event # "object" THEN "crash"
    ELSE IF p.etype # "im.message.receive_v1" THEN "ack"
    ELSE IF p.mtype # "text" THEN "ack"
    ELSE IF ~IsStr(UserText(p.content)) THEN "crash"
    ELSE IF CommandOf(UserText(p.content)) \in {"help", "test", "about"}
    THEN "command"
    ELSE IF CommandOf(UserText(p.content)) = "chat" THEN "chat"
    ELSE "ack"


\* -------------------------------------------------------------------- state
Threads == {"t1", "t2"}
\* the thread that runs when requests are handled one at a time
SeqThreads == {"t1"}

VARIABLES
    now,        \* time.time(), seconds since the process started
    cache,      \* feishu_token_cache: [token, expire_time]
    apiKey,     \* whether DEEPSEEK_API_KEY is set
    pc,         \* per thread: where it is in webhook()
    req,        \* per thread: the payload it handles
    ct,         \* per thread: current_time of get_feishu_access_token
    tok,        \* per thread: token (of get_feishu_access_token, then of send)
    msg,        \* per thread: the arguments of send_feishu_message
    sendResult, \* per thread: what send_feishu_message returned
    resp,       \* per thread: the HTTP response of webhook()
    log,        \* per thread: the calls made for this request, in order
    expRead,    \* per thread: the expire_time that line 42 read
    refreshes,  \* history: current_time of the call whose auth request
                \* was answered with token k, for k = 1, 2, ...
    cacheHits,  \* history: the tokens line 43 has returned
    writers,    \* history: who wrote cache.token and cache.expire_time last
    lastFailed  \* history: the call of get_feishu_access_token that returned
                \* last returned None (lines 66, 69)

vars ==
    <<now, cache, apiKey, pc, req, ct, tok, msg, sendResult, resp, log,
      expRead, refreshes, cacheHits, writers, lastFailed>>

NoPayload ==
    Payload("none", "none", Absent, "absent", "none", "none", Absent,
            "absent", Absent, Absent)
NoMsg == [receive_id |-> EmptyStr, content |-> EmptyStr]
NoResp == [status |-> 0, code |-> 0, msg |-> "none", challenge |-> Absent]
NoTime == -1

\* an entry of log: k is "complete" (call_ai_api called with text),
\* "completion_request" (line 145), "completed" (call_ai_api returned text),
\* "send" (send_feishu_message called), "auth" (line 54; id_type is its
\* outcome) or "send_request" (line 107).  The id_type of "completed" is what
\* the completion request did ("timeout", "exception", "http"), "none" when
\* no request was made.
Event(k, receive_id, text, id_type, token) ==
    [k |-> k, receive_id |-> receive_id, text |-> text, id_type |-> id_type,
     token |-> token]

Ack(m) == [status |-> 200, code |-> 0, msg |-> m, challenge |-> Absent]

Init ==
    /\ now = 0
    /\ cache = [token |-> NoToken, expire_time |-> 0]
    /\ apiKey \in BOOLEAN
    /\ pc = [t \in Threads |-> "idle"]
    /\ req = [t \in Threads |-> NoPayload]
    /\ ct = [t \in Threads |-> NoTime]
    /\ tok = [t \in Threads |-> NoToken]
    /\ msg = [t \in Threads |-> NoMsg]
    /\ sendResult = [t \in Threads |-> "none"]
    /\ resp = [t \in Threads |-> NoResp]
    /\ log = [t \in Threads |-> <<>>]
    /\ expRead = [t \in Threads |-> NoTime]
    /\ refreshes = <<>>
    /\ cacheHits = {}
    /\ writers = [token |-> "none", expire_time |-> "none"]
    /\ lastFailed = FALSE

shared == <<now, cache, apiKey, refreshes, cacheHits, writers, lastFailed>>
tokenLocals == <<ct, tok, expRead>>

\* ---------------------------------------------------------------- the clock
Tick ==
    /\ \E d \in TickSteps :
         /\ now + d <= MaxTime
         /\ now' = now + d
    /\ UNCHANGED <<cache, apiKey, pc, req, ct, tok, msg, sendResult, resp,
                   log, expRead, refreshes, cacheHits, writers, lastFailed>>

\* ------------------------------------------------- webhook(), lines 188-282
\* lines 280-282: an exception while handling the payload
WebhookCrash(t, P) ==
    /\ pc[t] = "idle"
    /\ \E p \in P :
         /\ Route(p) = "crash"
         /\ req' = [req EXCEPT ![t] = p]
    /\ resp' = [resp EXCEPT ![t] =
                  [status |-> 500, code |-> 500, msg |-> "server error",
                   challenge |-> Absent]]
    /\ pc' = [pc EXCEPT ![t] = "done"]
    /\ UNCHANGED <<shared, tokenLocals, msg, sendResult, log>>

\* lines 195-198
UrlVerification(t, P) ==
    /\ pc[t] = "idle"
    /\ \E p \in P :
         /\ Route(p) = "challenge"
         /\ req' = [req EXCEPT ![t] = p]
         /\ resp' = [resp EXCEPT ![t] =
                       [status |-> 200, code |-> 0, msg |-> "none",
                        challenge |-> Get(p.challenge, EmptyStr)]]
    /\ pc' = [pc EXCEPT ![t] = "done"]
    /\ UNCHANGED <<shared, tokenLocals, msg, sendResult, log>>

\* line 278
EventReceived(t, P) ==
    /\ pc[t] = "idle"
    /\ \E p \in P :
         /\ Route(p) = "ack"
         /\ req' = [req EXCEPT ![t] = p]
    /\ resp' = [resp EXCEPT ![t] = Ack("event received")]
    /\ pc' = [pc EXCEPT ![t] = "done"]
    /\ UNCHANGED <<shared, tokenLocals, msg, sendResult, log>>

\* lines 232-263, up to the call of send_feishu_message(receive_id, reply)
Command(t, P) ==
    /\ pc[t] = "idle"
    /\ \E p \in P :
         /\ Route(p) = "command"
         /\ req' = [req EXCEPT ![t] = p]
         /\ LET rid == ReceiveId(p.chat_type, p.user_id, p.chat_id)
                txt == CommandText(CommandOf(UserText(p.content)))
            IN  /\ msg' = [msg EXCEPT ![t] =
                             [receive_id |-> rid, content |-> txt]]
                /\ log' = [log EXCEPT ![t] =
                             <<Event("send", rid, txt, "none", NoToken)>>]
    /\ pc' = [pc EXCEPT ![t] = "gt_time"]
    /\ UNCHANGED <<shared, tokenLocals, sendResult, resp>>

\* lines 266-270, up to the call of call_ai_api(user_text)
Chat(t, P) ==
    /\ pc[t] = "idle"
    /\ \E p \in P :
         /\ Route(p) = "chat"
         /\ req' = [req EXCEPT ![t] = p]
         /\ log' = [log EXCEPT ![t] =
                      <<Event("complete", EmptyStr, UserText(p.content),
                              "none", NoToken)>>]
    /\ pc' = [pc EXCEPT ![t] = "ai"]
    /\ UNCHANGED <<shared, tokenLocals, msg, sendResult, resp>>

\* line 273 with user_text in the place of ai_reply
SendReplyEcho(t, ai_reply, events) ==
    LET rid == ReceiveId(req[t].chat_type, req[t].user_id, req[t].chat_id)
        txt == UserText(req[t].content)
    IN  /\ msg' = [msg EXCEPT ![t] = [receive_id |-> rid, content |-> txt]]
        /\ log' = [log EXCEPT ![t] =
                     log[t] \o events
                     \o <<Event("send", rid, txt, "none", NoToken)>>]
        /\ pc' = [pc EXCEPT ![t] = "gt_time"]

\* the call of send_feishu_message(receive_id, ai_reply), line 273
SendReply(t, ai_reply, events) ==
    LET rid == ReceiveId(req[t].chat_type, req[t].user_id, req[t].chat_id)
    IN  /\ msg' = [msg EXCEPT ![t] =
                     [receive_id |-> rid, content |-> ai_reply]]
        /\ log' = [log EXCEPT ![t] =
                     log[t] \o events
                     \o <<Event("send", rid, ai_reply, "none", NoToken)>>]
        /\ pc' = [pc EXCEPT ![t] = "gt_time"]

\* call_ai_api without the test of line 116: the request is made with an
\* empty key
CallAiNoKeyRequests(t) ==
    /\ pc[t] = "ai"
    /\ ~apiKey
    /\ \E r \in CompletionResponses :
         SendReply(t, DeepseekReply(r),
                   <<Event("completion_request", EmptyStr,
                           UserText(req[t].content), "none", NoToken),
                     Event("completed", EmptyStr, DeepseekReply(r), r.kind,
                           NoToken)>>)
    /\ UNCHANGED <<shared, tokenLocals, req, sendResult, resp>>

\* call_ai_api, lines 116-120, without an API key
CallAiNoKey(t) ==
    /\ pc[t] = "ai"
    /\ ~apiKey
    /\ SendReply(t, PlaceholderText,
                 <<Event("completed", EmptyStr, PlaceholderText, "none", NoToken)>>)
    /\ UNCHANGED <<shared, tokenLocals, req, sendResult, resp>>

\* call_ai_api with an API key: call_deepseek_api, lines 124-165
CallDeepseek(t) ==
    /\ pc[t] = "ai"
    /\ apiKey
    /\ \E r \in CompletionResponses :
         SendReply(t, DeepseekReply(r),
                   <<Event("completion_request", EmptyStr,
                           UserText(req[t].content), "none", NoToken),
                     Event("completed", EmptyStr, DeepseekReply(r), r.kind,
                           NoToken)>>)
    /\ UNCHANGED <<shared, tokenLocals, req, sendResult, resp>>


\* ----------------------------- get_feishu_access_token(), lines 35-69
\* Each read and each write of feishu_token_cache is a step of its own: the
\* threads of the server share the dict and nothing orders their accesses.

\* line 40
GtTime(t) ==
    /\ pc[t] = "gt_time"
    /\ ct' = [ct EXCEPT ![t] = now]
    /\ pc' = [pc EXCEPT ![t] = "gt_check_token"]
    /\ UNCHANGED <<shared, tok, expRead, req, msg, sendResult, resp, log>>

\* lines 41-43 without the comparison of line 42: a cached token is returned
\* whatever its expire_time
GtCheckTokenOnly(t) ==
    /\ pc[t] = "gt_check_token"
    /\ pc' = [pc EXCEPT ![t] =
                IF cache.token # NoToken THEN "gt_hit" ELSE "auth"]
    /\ UNCHANGED <<shared, tokenLocals, req, msg, sendResult, resp, log>>

\* line 41: feishu_token_cache['token'] is read and tested
GtCheckToken(t) ==
    /\ pc[t] = "gt_check_token"
    /\ pc' = [pc EXCEPT ![t] =
                IF cache.token # NoToken THEN "gt_check_expire" ELSE "auth"]
    /\ UNCHANGED <<shared, tokenLocals, req, msg, sendResult, resp, log>>

\* line 42: feishu_token_cache['expire_time'] is read and compared
GtCheckExpire(t) ==
    /\ pc[t] = "gt_check_expire"
    /\ IF StillValid(ct[t], cache.expire_time)
       THEN /\ pc' = [pc EXCEPT ![t] = "gt_hit"]
            /\ expRead' = [expRead EXCEPT ![t] = cache.expire_time]
       ELSE /\ pc' = [pc EXCEPT ![t] = "auth"]
            /\ UNCHANGED expRead
    /\ UNCHANGED <<shared, ct, tok, req, msg, sendResult, resp, log>>

\* line 43: feishu_token_cache['token'] is read again and returned
GtHitReturn(t) ==
    /\ pc[t] = "gt_hit"
    /\ tok' = [tok EXCEPT ![t] = cache.token]
    /\ cacheHits' = cacheHits \cup {cache.token}
    /\ lastFailed' = FALSE
    /\ pc' = [pc EXCEPT ![t] = "send"]
    /\ UNCHANGED <<now, cache, apiKey, refreshes, writers, ct, expRead, req,
                   msg, sendResult, resp, log>>

\* lines 53-58: the auth request and its answer, code 0 with a fresh token
AuthOk(t) ==
    /\ pc[t] = "auth"
    /\ Len(refreshes) < MaxAuth
    /\ tok' = [tok EXCEPT ![t] = Len(refreshes) + 1]
    /\ refreshes' = Append(refreshes, ct[t])
    /\ log' = [log EXCEPT ![t] =
                 Append(log[t], Event("auth", EmptyStr, EmptyStr, "ok",
                                      Len(refreshes) + 1))]
    /\ pc' = [pc EXCEPT ![t] = "gt_write_token"]
    /\ UNCHANGED <<now, cache, apiKey, cacheHits, writers, lastFailed, ct,
                   expRead, req, msg, sendResult, resp>>

\* lines 64-69 with the cache emptied when the auth request fails
AuthFailClearsCache(t) ==
    /\ pc[t] = "auth"
    /\ \E outcome \in AuthFailures :
         log' = [log EXCEPT ![t] =
                   Append(log[t], Event("auth", EmptyStr, EmptyStr, outcome, NoToken))]
    /\ cache' = [token |-> NoToken, expire_time |-> 0]
    /\ tok' = [tok EXCEPT ![t] = NoToken]
    /\ lastFailed' = TRUE
    /\ pc' = [pc EXCEPT ![t] = "send"]
    /\ UNCHANGED <<now, apiKey, refreshes, cacheHits, writers, ct, expRead,
                   req, msg, sendResult, resp>>

\* lines 53-57 and 64-69: the auth request fails; None is returned
AuthFail(t) ==
    /\ pc[t] = "auth"
    /\ \E outcome \in AuthFailures :
         log' = [log EXCEPT ![t] =
                   Append(log[t], Event("auth", EmptyStr, EmptyStr, outcome, NoToken))]
    /\ tok' = [tok EXCEPT ![t] = NoToken]
    /\ lastFailed' = TRUE
    /\ pc' = [pc EXCEPT ![t] = "send"]
    /\ UNCHANGED <<now, cache, apiKey, refreshes, cacheHits, writers, ct,
                   expRead, req, msg, sendResult, resp>>

\* line 60
GtWriteToken(t) ==
    /\ pc[t] = "gt_write_token"
    /\ cache' = [cache EXCEPT !.token = tok[t]]
    /\ writers' = [writers EXCEPT !.token = t]
    /\ pc' = [pc EXCEPT ![t] = "gt_write_expire"]
    /\ UNCHANGED <<now, apiKey, refreshes, cacheHits, lastFailed, tokenLocals,
                   req, msg, sendResult, resp, log>>

\* lines 61-63, returning what the cache holds instead of the local token
GtWriteExpireReturnCached(t) ==
    /\ pc[t] = "gt_write_expire"
    /\ cache' = [cache EXCEPT !.expire_time = NewExpire(ct[t])]
    /\ writers' = [writers EXCEPT !.expire_time = t]
    /\ tok' = [tok EXCEPT ![t] = cache.token]
    /\ lastFailed' = FALSE
    /\ pc' = [pc EXCEPT ![t] = "send"]
    /\ UNCHANGED <<now, apiKey, refreshes, cacheHits, ct, expRead, req, msg,
                   sendResult, resp, log>>

\* lines 61-63
GtWriteExpire(t) ==
    /\ pc[t] = "gt_write_expire"
    /\ cache' = [cache EXCEPT !.expire_time = NewExpire(ct[t])]
    /\ writers' = [writers EXCEPT !.expire_time = t]
    /\ lastFailed' = FALSE
    /\ pc' = [pc EXCEPT ![t] = "send"]
    /\ UNCHANGED <<now, apiKey, refreshes, cacheHits, tokenLocals, req, msg,
                   sendResult, resp, log>>

\* ------------------------------------ send_feishu_message(), lines 73-111
\* and the return of webhook() that follows the call (lines 248-276)
Answer(t) == Ack(CommandMsg(CommandOf(UserText(req[t].content))))

\* lines 77-111 run without a token: the early return of line 75 left out
SendNoTokenPosts(t) ==
    /\ pc[t] = "send"
    /\ tok[t] = NoToken
    /\ \E outcome \in SendOutcomes :
         sendResult' = [sendResult EXCEPT ![t] = outcome]
    /\ log' = [log EXCEPT ![t] =
                 Append(log[t],
                        Event("send_request", msg[t].receive_id, msg[t].content,
                              ReceiveIdType(msg[t].receive_id), tok[t]))]
    /\ resp' = [resp EXCEPT ![t] = Answer(t)]
    /\ pc' = [pc EXCEPT ![t] = "done"]
    /\ UNCHANGED <<shared, tokenLocals, req, msg>>

\* lines 74-75: no token, no request
SendNoToken(t) ==
    /\ pc[t] = "send"
    /\ tok[t] = NoToken
    /\ sendResult' = [sendResult EXCEPT ![t] = "no_token"]
    /\ resp' = [resp EXCEPT ![t] = Answer(t)]
    /\ pc' = [pc EXCEPT ![t] = "done"]
    /\ UNCHANGED <<shared, tokenLocals, req, msg, log>>

\* lines 77-111 with the failure of the request passed on to webhook()
SendPostSurfacesFailure(t) ==
    /\ pc[t] = "send"
    /\ tok[t] # NoToken
    /\ \E outcome \in SendOutcomes :
         /\ sendResult' = [sendResult EXCEPT ![t] = outcome]
         /\ resp' = [resp EXCEPT ![t] =
                       IF outcome = "ok" THEN Answer(t)
                       ELSE [status |-> 500, code |-> 500,
                             msg |-> "server error", challenge |-> Absent]]
    /\ log' = [log EXCEPT ![t] =
                 Append(log[t],
                        Event("send_request", msg[t].receive_id, msg[t].content,
                              ReceiveIdType(msg[t].receive_id), tok[t]))]
    /\ pc' = [pc EXCEPT ![t] = "done"]
    /\ UNCHANGED <<shared, tokenLocals, req, msg>>

\* lines 106-111 with the request made a second time when it fails
SendPostRetries(t) ==
    /\ pc[t] = "send"
    /\ tok[t] # NoToken
    /\ \E outcome \in SendOutcomes :
         /\ sendResult' = [sendResult EXCEPT ![t] = outcome]
         /\ LET e == Event("send_request", msg[t].receive_id, msg[t].content,
                           ReceiveIdType(msg[t].receive_id), tok[t])
            IN  log' = [log EXCEPT ![t] =
                          IF outcome = "ok" THEN Append(log[t], e)
                          ELSE log[t] \o <<e, e>>]
    /\ resp' = [resp EXCEPT ![t] = Answer(t)]
    /\ pc' = [pc EXCEPT ![t] = "done"]
    /\ UNCHANGED <<shared, tokenLocals, req, msg>>

\* lines 77-111: the request to the message-send endpoint
SendPost(t) ==
    /\ pc[t] = "send"
    /\ tok[t] # NoToken
    /\ \E outcome \in SendOutcomes :
         sendResult' = [sendResult EXCEPT ![t] = outcome]
    /\ log' = [log EXCEPT ![t] =
                 Append(log[t],
                        Event("send_request", msg[t].receive_id, msg[t].content,
                              ReceiveIdType(msg[t].receive_id), tok[t]))]
    /\ resp' = [resp EXCEPT ![t] = Answer(t)]
    /\ pc' = [pc EXCEPT ![t] = "done"]
    /\ UNCHANGED <<shared, tokenLocals, req, msg>>

\* the response is sent and the thread takes the next request
Finish(t) ==
    /\ pc[t] = "done"
    /\ pc' = [pc EXCEPT ![t] = "idle"]
    /\ req' = [req EXCEPT ![t] = NoPayload]
    /\ ct' = [ct EXCEPT ![t] = NoTime]
    /\ tok' = [tok EXCEPT ![t] = NoToken]
    /\ msg' = [msg EXCEPT ![t] = NoMsg]
    /\ sendResult' = [sendResult EXCEPT ![t] = "none"]
    /\ resp' = [resp EXCEPT ![t] = NoResp]
    /\ log' = [log EXCEPT ![t] = <<>>]
    /\ expRead' = [expRead EXCEPT ![t] = NoTime]
    /\ UNCHANGED shared

\* ------------------------------------------------------------ specifications
Step(t, P) ==
    \/ WebhookCrash(t, P)
    \/ UrlVerification(t, P)
    \/ EventReceived(t, P)
    \/ Command(t, P)
    \/ Chat(t, P)
    \/ CallAiNoKey(t)
    \/ CallDeepseek(t)
    \/ GtTime(t)
    \/ GtCheckToken(t)
    \/ GtCheckExpire(t)
    \/ GtHitReturn(t)
    \/ AuthOk(t)
    \/ AuthFail(t)
    \/ GtWriteToken(t)
    \/ GtWriteExpire(t)
    \/ SendNoToken(t)
    \/ SendPost(t)
    \/ Finish(t)

\* requests handled one at a time
Next == Tick \/ \E t \in SeqThreads : Step(t, Payloads)

Spec == Init /\ [][Next]_vars

\* two command messages handled at once, as the threaded server does: the
\* threads meet in get_feishu_access_token
StepConc(t) ==
    \/ Command(t, ConcPayloads)
    \/ GtTime(t)
    \/ GtCheckToken(t)
    \/ GtCheckExpire(t)
    \/ GtHitReturn(t)
    \/ AuthOk(t)
    \/ AuthFail(t)
    \/ GtWriteToken(t)
    \/ GtWriteExpire(t)
    \/ SendNoToken(t)
    \/ SendPost(t)
    \/ Finish(t)

NextConc == Tick \/ \E t \in Threads : StepConc(t)

\* no command reads DEEPSEEK_API_KEY
InitConc == Init /\ ~apiKey

SpecConc == InitConc /\ [][NextConc]_vars


\* ------------------------------------------------------------ the claims
IsAuth(e) == e.k = "auth"
IsSend(e) == e.k = "send"
IsSendRequest(e) == e.k = "send_request"
IsComplete(e) == e.k = "complete"
IsCompletionRequest(e) == e.k = "completion_request"
IsCompleted(e) == e.k = "completed"

AuthEvents(t) == SelectSeq(log[t], IsAuth)
SendEvents(t) == SelectSeq(log[t], IsSend)
SendRequests(t) == SelectSeq(log[t], IsSendRequest)
CompleteEvents(t) == SelectSeq(log[t], IsComplete)
CompletionRequests(t) == SelectSeq(log[t], IsCompletionRequest)
CompletedEvents(t) == SelectSeq(log[t], IsCompleted)

\* get_feishu_access_token has returned to send_feishu_message
GotToken(t) == pc[t] \in {"send", "done"} /\ SendEvents(t) # <<>>

\* the call of get_feishu_access_token by t was answered with a token
Refreshed(t) == AuthEvents(t) # <<>> /\ AuthEvents(t)[1].token # NoToken

CacheShape ==
    /\ cache.token \in 0..Len(refreshes)
    /\ \/ cache.expire_time = 0 /\ writers.expire_time = "none"
       \/ \E k \in DOMAIN refreshes : cache.expire_time = refreshes[k] + TokenTTL

BothRefreshed == \A t \in Threads : GotToken(t) /\ Refreshed(t)

EachReturnsItsOwn ==
    /\ \A t \in Threads : tok[t] = AuthEvents(t)[1].token /\ tok[t] # NoToken
    /\ \A t, u \in Threads : t # u => tok[t] # tok[u]

\* C3 as stated: once both have finished, the cache holds the token and the
\* expiry of the thread that wrote last.
C3_AsStated ==
    BothRefreshed =>
        /\ EachReturnsItsOwn
        /\ writers.expire_time \in Threads
        /\ cache.token = tok[writers.expire_time]
        /\ cache.expire_time = ct[writers.expire_time] + TokenTTL

\* C3 as amended: once both have finished, the cache holds the token of the
\* thread that wrote the token last and the expiry of the thread that wrote
\* the expiry last; the two may be different threads.
C3_LastWritePerField ==
    BothRefreshed =>
        /\ EachReturnsItsOwn
        /\ writers.token \in Threads
        /\ writers.expire_time \in Threads
        /\ cache.token = tok[writers.token]
        /\ cache.expire_time = ct[writers.expire_time] + TokenTTL

\* both refreshed and the two fields were last written by different threads
C3_Witness ==
    /\ BothRefreshed
    /\ writers.token # writers.expire_time
    /\ \E t \in Threads : ct[t] # ct[writers.expire_time]


\* C4: a url_verification payload is answered at once with HTTP 200 and its
\* challenge ("" when it carries none), and no completion, auth or send call
\* is made for it, whatever else it carries.
C4_ChallengeEchoed ==
    \A t \in Threads :
        (req[t].body = "object" /\ req[t].type = "url_verification") =>
            /\ pc[t] = "done"
            /\ resp[t].status = 200
            /\ resp[t].challenge =
                 (IF req[t].challenge = Absent THEN EmptyStr ELSE req[t].challenge)
            /\ log[t] = <<>>
            /\ sendResult[t] = "none"
            /\ tok[t] = NoToken

\* a challenge echoed for a payload that also carries a text message event
C4_Witness ==
    \E t \in Threads :
        /\ req[t].type = "url_verification"
        /\ req[t].event = "object"
        /\ req[t].mtype = "text"
        /\ resp[t].challenge = <<"a", "b", "c", "1", "2", "3">>

\* the text of a message as a reader of the payload sees it: the text field
\* of the JSON content, or the content itself when it is no such document
TextOf(content) ==
    LET raw == IF content = Absent THEN <<"{", "}">> ELSE content
        j == JsonLoads(raw)
    IN  IF j.ok /\ j.isObject /\ j.text # Absent /\ IsStr(j.text) THEN j.text
        ELSE IF j.ok /\ j.isObject /\ j.text = Absent THEN EmptyStr
        ELSE raw

KeywordReply(text) ==
    IF Lower(text) \in HelpKeywords THEN HelpText
    ELSE IF Lower(text) \in TestKeywords THEN TestText
    ELSE AboutText

AllKeywords == HelpKeywords \cup TestKeywords \cup AboutKeywords

\* the fixed text goes to send_feishu_message with the resolved receive_id,
\* once, and call_ai_api is not called
CommandHandled(t, text) ==
    /\ SendEvents(t) =
         <<Event("send",
                 ReceiveId(req[t].chat_type, req[t].user_id, req[t].chat_id),
                 KeywordReply(text), "none", NoToken)>>
    /\ CompleteEvents(t) = <<>>
    /\ CompletionRequests(t) = <<>>
    /\ \A i \in DOMAIN SendRequests(t) :
         SendRequests(t)[i].text = KeywordReply(text)

\* C5 as stated: a text message whose trimmed text is a keyword, in any case,
\* gets the keyword's fixed text and no completion call.
C5_AsStated ==
    \A t \in Threads :
        (/\ IsTextEvent(req[t])
         /\ IsStr(Get(req[t].content, EmptyStr))
         /\ Lower(Strip(TextOf(req[t].content))) \in AllKeywords)
        => CommandHandled(t, Strip(TextOf(req[t].content)))

\* C5 as amended: the text that is matched is the text field of the JSON
\* content, trimmed, or the raw content as it is (not trimmed) when the
\* content is no JSON object with a string text.
C5_CommandOnExtractedText ==
    \A t \in Threads :
        (/\ IsTextEvent(req[t])
         /\ IsStr(Get(req[t].content, EmptyStr))
         /\ Lower(UserText(req[t].content)) \in AllKeywords)
        => CommandHandled(t, UserText(req[t].content))

\* " /HELP " in a JSON content, with an API key configured: the help text was
\* posted to the sender
C5_Witness ==
    \E t \in Threads :
        /\ apiKey
        /\ pc[t] = "done"
        /\ req[t].content = TextDoc(<<" ", "/", "H", "E", "L", "P", " ">>)
        /\ Len(SendRequests(t)) = 1
        /\ SendRequests(t)[1].text = HelpText
        /\ SendRequests(t)[1].receive_id = DefaultUser

\* a text message event whose user_text is a non-empty string and no keyword
IsChat(t) ==
    /\ IsTextEvent(req[t])
    /\ IsStr(UserText(req[t].content))
    /\ UserText(req[t].content) # EmptyStr
    /\ Lower(UserText(req[t].content)) \notin AllKeywords

\* C6: for such a message call_ai_api is called first, with user_text; once
\* it has returned, send_feishu_message is called exactly once, after it, with
\* the resolved receive_id and the value call_ai_api returned; what is posted
\* to the message-send endpoint is that value too.
C6_CompletionThenSend ==
    \A t \in Threads :
        IsChat(t) =>
            /\ log[t] # <<>>
            /\ log[t][1] = Event("complete", EmptyStr, UserText(req[t].content),
                                 "none", NoToken)
            /\ Len(CompleteEvents(t)) = 1
            /\ pc[t] = "ai" => SendEvents(t) = <<>> /\ CompletedEvents(t) = <<>>
            /\ pc[t] # "ai" =>
                 /\ Len(CompletedEvents(t)) = 1
                 /\ Len(SendEvents(t)) = 1
                 /\ \E i, j \in DOMAIN log[t] :
                      /\ i < j
                      /\ IsCompleted(log[t][i])
                      /\ IsSend(log[t][j])
                      /\ log[t][j].text = log[t][i].text
                      /\ log[t][j].receive_id =
                           ReceiveId(req[t].chat_type, req[t].user_id,
                                     req[t].chat_id)
                 /\ \A i \in DOMAIN SendRequests(t) :
                      /\ SendRequests(t)[i].text = CompletedEvents(t)[1].text
                      /\ SendRequests(t)[i].receive_id = SendEvents(t)[1].receive_id

\* "hi" answered by the completion endpoint with "Hi!", and "Hi!" posted
C6_Witness ==
    \E t \in Threads :
        /\ IsChat(t)
        /\ pc[t] = "done"
        /\ Len(CompletionRequests(t)) = 1
        /\ CompletionRequests(t)[1].text = <<"h", "i">>
        /\ Len(SendRequests(t)) = 1
        /\ SendRequests(t)[1].text = HiText

\* a content json.loads does not accept
NotValidJson(content) ==
    content # Absent /\ (~IsStr(content) \/ ~JsonLoads(content).ok)

\* C7 as stated: a text message event whose content is not valid JSON is
\* dispatched on the raw content and is never answered with HTTP 500.
C7_AsStated ==
    \A t \in Threads :
        (IsTextEvent(req[t]) /\ NotValidJson(req[t].content) /\ pc[t] = "done")
        => resp[t].status = 200

\* what holds of the code: a content that is a string and no valid JSON is
\* dispatched on the raw content and answered with HTTP 200
C7_StringContentFallsBack ==
    \A t \in Threads :
        (/\ IsTextEvent(req[t])
         /\ NotValidJson(req[t].content)
         /\ IsStr(req[t].content)
         /\ pc[t] = "done")
        => /\ resp[t].status = 200
           /\ req[t].content # EmptyStr =>
                \E i \in DOMAIN log[t] :
                    /\ log[t][i].k \in {"complete", "send"}
                    /\ log[t][i].k = "complete" => log[t][i].text = req[t].content

\* the receive_id_type the spec gives an id
ExpectedIdType(id) ==
    LET prefix == IF Len(id) >= 3 THEN SubSeq(id, 1, 3) ELSE <<>>
    IN  CASE prefix = <<"o", "u", "_">> -> "open_id"
          [] prefix = <<"o", "n", "_">> -> "union_id"
          [] prefix = <<"o", "c", "_">> -> "chat_id"
          [] OTHER -> "user_id"

\* C8: every request to the message-send endpoint carries the
\* receive_id_type that the prefix of its receive_id gives: ou_ open_id,
\* on_ union_id, oc_ chat_id, anything else (the empty id too) user_id.
C8_IdTypeFromPrefix ==
    \A t \in Threads :
        \A i \in DOMAIN SendRequests(t) :
            /\ SendRequests(t)[i].id_type = ExpectedIdType(SendRequests(t)[i].receive_id)
            /\ SendRequests(t)[i].receive_id = msg[t].receive_id

\* requests sent with each of the four types, the empty id among them
C8_Witness ==
    \E t \in Threads :
        /\ Len(SendRequests(t)) = 1
        /\ SendRequests(t)[1].receive_id = DefaultChat
        /\ SendRequests(t)[1].id_type = "chat_id"
        /\ req[t].chat_type = "absent"

\* C9: when the auth request of this call failed, send_feishu_message
\* returns the failure {"code": -1} and makes no request to the message-send
\* endpoint.
C9_NoTokenNoSend ==
    \A t \in Threads :
        (AuthEvents(t) # <<>> /\ ~Refreshed(t)) =>
            /\ SendRequests(t) = <<>>
            /\ pc[t] \in {"send", "done"}
            /\ tok[t] = NoToken
            /\ pc[t] = "done" =>
                 /\ sendResult[t] = "no_token"
                 /\ SendResultCode(sendResult[t]) = -1

\* a failed auth request while the cache holds an expired token
C9_Witness ==
    \E t \in Threads :
        /\ pc[t] = "done"
        /\ AuthEvents(t) # <<>>
        /\ AuthEvents(t)[1].id_type = "exception"
        /\ cache.token # NoToken
        /\ sendResult[t] = "no_token"

\* an upstream call of this request failed
UpstreamFailed(t) ==
    \/ AuthEvents(t) # <<>> /\ ~Refreshed(t)
    \/ sendResult[t] \in {"no_token", "provider_error", "exception"}
    \/ \E i \in DOMAIN CompletedEvents(t) :
         CompletedEvents(t)[i].text \in
            {FormatErrorText, ApiErrorText, TimeoutText, ExceptionText}

ExpectedMsg(t) ==
    IF SendEvents(t)[1].text = HelpText /\ CompleteEvents(t) = <<>>
    THEN "help command"
    ELSE IF SendEvents(t)[1].text = TestText /\ CompleteEvents(t) = <<>>
    THEN "test command"
    ELSE IF SendEvents(t)[1].text = AboutText /\ CompleteEvents(t) = <<>>
    THEN "about command"
    ELSE "message processed"

\* C10: a text message event during which the token fetch, the completion
\* or the message send failed is still answered with HTTP 200 and
\* {code: 0, msg} , the msg of its branch, and each of the three requests was
\* made at most once.
C10_FailuresAbsorbed ==
    \A t \in Threads :
        (IsTextEvent(req[t]) /\ UpstreamFailed(t)) =>
            /\ Len(AuthEvents(t)) <= 1
            /\ Len(SendRequests(t)) <= 1
            /\ Len(CompletionRequests(t)) <= 1
            /\ Len(SendEvents(t)) <= 1
            /\ pc[t] = "done" =>
                 /\ resp[t].status = 200
                 /\ resp[t].code = 0
                 /\ resp[t].msg = ExpectedMsg(t)

\* the completion timed out and the post of the timeout text failed too
C10_Witness ==
    \E t \in Threads :
        /\ pc[t] = "done"
        /\ Len(CompletedEvents(t)) = 1
        /\ CompletedEvents(t)[1].text = TimeoutText
        /\ sendResult[t] = "exception"
        /\ resp[t] = Ack("message processed")

\* C11 as stated: whatever the completion request does, call_ai_api returns a
\* string and raises nothing, and a request that timed out returns the fixed
\* timeout string.
C11_AsStated ==
    \A t \in Threads :
        /\ pc[t] \notin {"idle", "ai"} /\ IsChat(t) => Len(CompletedEvents(t)) = 1
        /\ \A i \in DOMAIN CompletedEvents(t) :
             /\ IsStr(CompletedEvents(t)[i].text)
             /\ CompletedEvents(t)[i].id_type = "timeout" =>
                  CompletedEvents(t)[i].text = TimeoutText

\* what holds of the code: call_ai_api raises nothing and returns, a timed-out
\* request gives the timeout string, and the value returned is a string or
\* the value of choices[0].message.content, whatever that is
C11_ReturnsContentAsIs ==
    \A t \in Threads :
        /\ pc[t] \notin {"idle", "ai"} /\ IsChat(t) =>
             /\ Len(CompletedEvents(t)) = 1
             /\ pc[t] = "done" => resp[t].status = 200
        /\ \A i \in DOMAIN CompletedEvents(t) :
             /\ \/ IsStr(CompletedEvents(t)[i].text)
                \/ /\ CompletedEvents(t)[i].id_type = "http"
                   /\ CompletedEvents(t)[i].text = NoneVal
             /\ CompletedEvents(t)[i].id_type = "timeout" =>
                  CompletedEvents(t)[i].text = TimeoutText

\* a payload that is neither a url_verification nor an event_callback that
\* carries an im.message.receive_v1 event with message_type text
IsOtherPayload(p) ==
    /\ p.body # "none"
    /\ ~(p.body = "object" /\ p.type = "url_verification")
    /\ ~IsTextEvent(p)

NoCallMade(t) ==
    /\ log[t] = <<>>
    /\ tok[t] = NoToken
    /\ ct[t] = NoTime
    /\ sendResult[t] = "none"
    /\ msg[t] = NoMsg

Unreadable(p) ==
    \/ p.body # "object"
    \/ p.type = "event_callback" /\ p.event \notin {"object", "absent"}

StringTextEvent(t) ==
    IsTextEvent(req[t]) /\ IsStr(Get(req[t].content, EmptyStr))

\* the content is a JSON object whose text is a string or is missing
HasJsonText(content) ==
    LET j == JsonLoads(Get(content, <<"{", "}">>))
    IN  j.ok /\ j.isObject /\ (j.text = Absent \/ IsStr(j.text))

\* C13 as stated: a text message whose text is empty once trimmed causes no
\* completion call, no token fetch and no send, and is acknowledged.
C13_AsStated ==
    \A t \in Threads :
        (StringTextEvent(t) /\ Strip(TextOf(req[t].content)) = EmptyStr) =>
            /\ NoCallMade(t)
            /\ pc[t] = "done"
            /\ resp[t] = Ack("event received")

\* C13 as amended: the text is trimmed only when it comes from the text field
\* of a JSON content; a message whose JSON text is empty once trimmed, or is
\* missing, or whose raw content is the empty string, causes no action and is
\* acknowledged, while a raw content of white space only is free text: it is
\* sent to call_ai_api.
C13_EmptyTextNoAction ==
    \A t \in Threads :
        StringTextEvent(t) =>
            /\ (\/ HasJsonText(req[t].content)
                   /\ Strip(TextOf(req[t].content)) = EmptyStr
                \/ req[t].content = EmptyStr)
               => /\ NoCallMade(t)
                  /\ pc[t] = "done"
                  /\ resp[t] = Ack("event received")
            /\ (/\ ~HasJsonText(req[t].content)
                /\ req[t].content # EmptyStr
                /\ Strip(req[t].content) = EmptyStr)
               => /\ log[t] # <<>>
                  /\ log[t][1] = Event("complete", EmptyStr, req[t].content,
                                       "none", NoToken)

\* a message whose JSON text is one blank was acknowledged without a call
C13_Witness ==
    \E t \in Threads :
        /\ pc[t] = "done"
        /\ req[t].content = TextDoc(<<" ">>)
        /\ IsTextEvent(req[t])
        /\ NoCallMade(t)
        /\ resp[t] = Ack("event received")

\* the receiveId the rule gives a payload: the sender's user_id in a p2p
\* chat, the message's chat_id in every other; "" for an id that is missing
RuleReceiveId(p) ==
    IF p.chat_type = "p2p"
    THEN (IF p.user_id = Absent THEN EmptyStr ELSE p.user_id)
    ELSE (IF p.chat_id = Absent THEN EmptyStr ELSE p.chat_id)

\* C14: every reply to a text message event, a command's fixed text or the
\* value call_ai_api returned, is addressed to the sender's user_id when
\* chat_type is "p2p" and to the message's chat_id for every other chat_type
\* (a missing chat_type too), in the call of send_feishu_message and in the
\* request to the message-send endpoint.
C14_ReceiveIdByChatType ==
    \A t \in Threads :
        /\ \A i \in DOMAIN SendEvents(t) :
             /\ IsTextEvent(req[t])
             /\ SendEvents(t)[i].receive_id = RuleReceiveId(req[t])
             /\ msg[t].receive_id = RuleReceiveId(req[t])
        /\ \A i \in DOMAIN SendRequests(t) :
             SendRequests(t)[i].receive_id = RuleReceiveId(req[t])

\* the reply of call_ai_api posted to the chat_id of a message without a
\* chat_type, whose sender has another id
C14_Witness ==
    \E t \in Threads :
        /\ pc[t] = "done"
        /\ req[t].chat_type = "absent"
        /\ req[t].user_id = <<"o", "u", "_", "a">>
        /\ req[t].chat_id = <<"o", "n", "_", "b">>
        /\ Len(CompletedEvents(t)) = 1
        /\ Len(SendRequests(t)) = 1
        /\ SendRequests(t)[1].receive_id = <<"o", "n", "_", "b">>
        /\ SendRequests(t)[1].text = CompletedEvents(t)[1].text

\* C15: without an API key no request goes to the completion endpoint;
\* call_ai_api returns the placeholder, and the placeholder is what
\* send_feishu_message is given and what is posted for a free-text message.
C15_PlaceholderWithoutKey ==
    ~apiKey =>
        \A t \in Threads :
            /\ CompletionRequests(t) = <<>>
            /\ (IsChat(t) /\ pc[t] # "ai") =>
                 /\ CompletedEvents(t) =
                      <<Event("completed", EmptyStr, PlaceholderText, "none",
                              NoToken)>>
                 /\ Len(SendEvents(t)) = 1
                 /\ SendEvents(t)[1].text = PlaceholderText
                 /\ msg[t].content = PlaceholderText
                 /\ \A i \in DOMAIN SendRequests(t) :
                      SendRequests(t)[i].text = PlaceholderText

\* without a key, "hi" was answered with the placeholder
C15_Witness ==
    \E t \in Threads :
        /\ ~apiKey
        /\ pc[t] = "done"
        /\ UserText(req[t].content) = <<"h", "i">>
        /\ CompletionRequests(t) = <<>>
        /\ Len(SendRequests(t)) = 1
        /\ SendRequests(t)[1].text = PlaceholderText
        /\ sendResult[t] = "ok"

\* t is between the answer of its auth request, code 0 with a token, and the
\* return of line 63
Refreshing(t) ==
    /\ pc[t] \in {"gt_write_token", "gt_write_expire"}
    /\ Refreshed(t)
    /\ tok[t] = AuthEvents(t)[1].token

\* C16: every step that changes feishu_token_cache is a write of lines 60-61
\* by a call of get_feishu_access_token whose auth request succeeded, and it
\* writes that call's token or that call's current_time + 6600; a cache hit,
\* a failed refresh, the rest of send_feishu_message, the completion client
\* and the webhook branches that send nothing change neither field.
C16_OnlyRefreshWrites ==
    [][cache' # cache =>
         \E t \in Threads :
             /\ Refreshing(t)
             /\ cache'.token # cache.token =>
                  pc[t] = "gt_write_token" /\ cache'.token = tok[t]
             /\ cache'.expire_time # cache.expire_time =>
                  /\ pc[t] = "gt_write_expire"
                  /\ cache'.expire_time = ct[t] + TokenTTL]_vars

\* token 1 was cached and served from the cache, then a refresh failed after
\* its expiry: the cache still holds token 1 and its expiry
C16_Witness ==
    \E t \in Threads :
        /\ pc[t] = "done"
        /\ AuthEvents(t) # <<>>
        /\ ~Refreshed(t)
        /\ 1 \in cacheHits
        /\ Len(refreshes) = 1
        /\ cache = [token |-> 1, expire_time |-> refreshes[1] + TokenTTL]
        /\ ct[t] >= cache.expire_time

\* what the refreshes so far leave in the cache when none is half written
CacheOf(history) ==
    IF history = <<>>
    THEN [token |-> NoToken, expire_time |-> 0]
    ELSE [token |-> Len(history),
          expire_time |-> history[Len(history)] + TokenTTL]

\* the call of get_feishu_access_token by t made an auth request that failed
RefreshFailed(t) == AuthEvents(t) # <<>> /\ ~Refreshed(t)

\* C17, with requests handled one after the other: a call whose auth request
\* failed returns None and leaves in the cache what the last successful
\* refresh wrote; a call returns None only after an auth request of its own
\* that failed; the call that follows a failed one never returns from the
\* cache (line 43) but makes an auth request again; and a token is returned
\* only before the expire_time it was cached with.
C17_FailureNotCached ==
    \A t \in SeqThreads :
        /\ RefreshFailed(t) =>
             /\ tok[t] = NoToken
             /\ cache = CacheOf(refreshes)
        /\ (GotToken(t) /\ tok[t] = NoToken) =>
             Len(AuthEvents(t)) = 1 /\ RefreshFailed(t) /\ lastFailed
        /\ (lastFailed /\ pc[t] \in {"gt_check_token", "gt_check_expire",
                                      "gt_hit", "auth", "gt_write_token",
                                      "gt_write_expire"}) =>
             /\ pc[t] # "gt_hit"
             /\ ~StillValid(ct[t], cache.expire_time) \/ cache.token = NoToken
             /\ pc[t] \in {"gt_write_token", "gt_write_expire"} =>
                  Len(AuthEvents(t)) = 1
        /\ (GotToken(t) /\ tok[t] # NoToken) =>
             /\ tok[t] \in DOMAIN refreshes
             /\ ct[t] < refreshes[tok[t]] + TokenTTL

\* the call after a failed refresh has made a new auth request, answered
\* with token 2, while the cache still holds the expired token 1
C17_Witness ==
    \E t \in SeqThreads :
        /\ lastFailed
        /\ pc[t] = "gt_write_token"
        /\ Refreshed(t)
        /\ tok[t] = 2
        /\ cache = [token |-> 1, expire_time |-> refreshes[1] + TokenTTL]
        /\ ct[t] >= cache.expire_time

\* the requests that leave the process, in the order they were made
IsOutbound(e) == e.k \in {"completion_request", "auth", "send_request"}
Outbound(t) == SelectSeq(log[t], IsOutbound)

OutboundRank(e) ==
    CASE e.k = "completion_request" -> 1
      [] e.k = "auth" -> 2
      [] OTHER -> 3

\* C18: while one webhook request is handled, at most one completion
\* request, at most one auth request and at most one message-send request are
\* made, the completion request before the auth request before the
\* message-send request, and a message-send request is made only for an
\* event_callback that carries an im.message.receive_v1 text message.
C18_OneOfEachInOrder ==
    \A t \in Threads :
        /\ Len(CompletionRequests(t)) <= 1
        /\ Len(AuthEvents(t)) <= 1
        /\ Len(SendRequests(t)) <= 1
        /\ \A i, j \in DOMAIN Outbound(t) :
             i < j => OutboundRank(Outbound(t)[i]) < OutboundRank(Outbound(t)[j])
        /\ \A i, j \in DOMAIN log[t] :
             (IsComplete(log[t][i]) /\ ~IsComplete(log[t][j])) => i < j
        /\ SendRequests(t) # <<>> => IsTextEvent(req[t])
        /\ ~IsTextEvent(req[t]) => Outbound(t) = <<>>

\* one request for which all three were made: completion, auth, send
C18_Witness ==
    \E t \in Threads :
        /\ pc[t] = "done"
        /\ IsTextEvent(req[t])
        /\ Len(Outbound(t)) = 3
        /\ Outbound(t)[1].k = "completion_request"
        /\ Outbound(t)[2].k = "auth"
        /\ Outbound(t)[3].k = "send_request"

==========================================================================
